---- MODULE Spec2Model ----
(***************************************************************************)
(* Model of src/ocr_dni_engine.py: the OCR date corrector                  *)
(* (corregir_fecha_ocr), the field parser (parsear_dni) and the pipeline   *)
(* orchestrator (extraer_datos_dni).                                       *)
(*                                                                         *)
(* A Python str is a sequence of one-character strings; the newline is the *)
(* character "\n".  A Python dict is a function whose domain is the set of *)
(* keys present.  Python's None is the value None below, which is no str.  *)
(***************************************************************************)
EXTENDS Integers, Sequences, FiniteSets, TLC

VARIABLES
  pc,          \* position of the running call
  ocr_engine,  \* the process-wide engine handle: "ready" or "None"
  img,         \* what cv2.imread returned
  resultado,   \* what ocr_engine.ocr returned
  texto_ocr,   \* the text handed to parsear_dni
  hoy,         \* what datetime.now() returns, as <<year, month, day>>
  datos,       \* the dict built by parsear_dni
  retorno,     \* the value returned by extraer_datos_dni
  llamadas,    \* the collaborators called so far, in order
  fecha_str,   \* the argument of corregir_fecha_ocr
  fecha_out    \* the value returned by corregir_fecha_ocr

vars == <<pc, ocr_engine, img, resultado, texto_ocr, hoy, datos, retorno,
          llamadas, fecha_str, fecha_out>>

----------------------------------------------------------------------------
(* Characters and strings *)

None == <<"None">>

NL == "\n"

DigitChars == <<"0", "1", "2", "3", "4", "5", "6", "7", "8", "9">>

UpperChars == <<"A", "B", "C", "D", "E", "F", "G", "H", "I", "J", "K", "L", "M",
                "N", "O", "P", "Q", "R", "S", "T", "U", "V", "W", "X", "Y", "Z">>

LowerChars == <<"a", "b", "c", "d", "e", "f", "g", "h", "i", "j", "k", "l", "m",
                "n", "o", "p", "q", "r", "s", "t", "u", "v", "w", "x", "y", "z">>

Range(s) == {s[i] : i \in DOMAIN s}

\* \d
IsDigit(c) == c \in Range(DigitChars)

\* \s
IsSpace(c) == c \in {" ", NL, "\t"}

\* \w
IsWord(c) == c \in Range(DigitChars) \cup Range(UpperChars) \cup Range(LowerChars) \cup {"_"}

\* the class [A-ZÁÉÍÓÚÑ\s]
IsUpperOrSpace(c) == c \in Range(UpperChars) \cup {"Á", "É", "Í", "Ó", "Ú", "Ñ"} \cup {" ", NL, "\t"}

\* case folding of re.IGNORECASE
Fold(c) ==
  IF \E i \in DOMAIN LowerChars : LowerChars[i] = c
  THEN UpperChars[CHOOSE i \in DOMAIN LowerChars : LowerChars[i] = c]
  ELSE c

\* s[a:b] of Python, with 0-based a and b, 0 <= a
Slice(s, a, b) ==
  LET e == IF b > Len(s) THEN Len(s) ELSE b
  IN IF a >= e THEN <<>> ELSE SubSeq(s, a + 1, e)

\* s.startswith(p)
StartsWith(s, p) == Len(p) <= Len(s) /\ SubSeq(s, 1, Len(p)) = p

\* int(s) of a string of decimal digits
DigitVal(c) == (CHOOSE i \in DOMAIN DigitChars : DigitChars[i] = c) - 1

RECURSIVE IntOf(_)
IntOf(s) ==
  IF s = <<>> THEN 0
  ELSE 10 * IntOf(SubSeq(s, 1, Len(s) - 1)) + DigitVal(s[Len(s)])

----------------------------------------------------------------------------
(* datetime *)

IsLeap(y) == y % 4 = 0 /\ (y % 100 # 0 \/ y % 400 = 0)

DaysInMonth(y, m) ==
  IF m = 2 THEN (IF IsLeap(y) THEN 29 ELSE 28)
  ELSE IF m \in {4, 6, 9, 11} THEN 30 ELSE 31

\* datetime(y, m, d) does not raise ValueError
DatetimeOk(y, m, d) ==
  /\ 1 <= y /\ y <= 9999
  /\ 1 <= m /\ m <= 12
  /\ 1 <= d /\ d <= DaysInMonth(y, m)

RECURSIVE DaysBeforeMonth(_, _)
DaysBeforeMonth(y, m) ==
  IF m = 1 THEN 0 ELSE DaysBeforeMonth(y, m - 1) + DaysInMonth(y, m - 1)

\* date.toordinal()
Ordinal(y, m, d) ==
  LET p == y - 1
  IN p * 365 + (p \div 4) - (p \div 100) + (p \div 400) + DaysBeforeMonth(y, m) + d

----------------------------------------------------------------------------
(* corregir_fecha_ocr *)

\* corregir_dia without the test int(dia) > 31
corregir_dia_sin_umbral(dia) ==
  IF StartsWith(dia, <<"3">>) THEN <<"0", dia[2]>> ELSE dia

corregir_dia(dia) ==
  IF StartsWith(dia, <<"3">>) /\ IntOf(dia) > 31 THEN <<"0", dia[2]>> ELSE dia

corregir_mes(mes) ==
  IF mes = <<"1", "9">> THEN <<"1", "0">> ELSE mes

corregir_anio(anio) ==
  IF anio = <<"2", "0", "6", "2">> THEN <<"2", "0", "0", "2">>
  ELSE IF anio = <<"2", "9", "1", "9">> THEN <<"2", "0", "1", "9">>
  ELSE anio

corregir_fecha_ocr(s) ==
  IF s = None \/ s = <<>> \/ Len(s) # 8 THEN None
  ELSE LET dia == corregir_dia(Slice(s, 0, 2))
           mes == corregir_mes(Slice(s, 2, 4))
           anio == corregir_anio(Slice(s, 4, 8))
       IN IF DatetimeOk(IntOf(anio), IntOf(mes), IntOf(dia))
          THEN dia \o <<"/">> \o mes \o <<"/">> \o anio
          ELSE None

----------------------------------------------------------------------------
(* Regular expressions of parsear_dni.  Positions are 1-based. *)

\* the literal lit (given in upper case) is at position p of s
LitAt(s, p, lit, ignorecase) ==
  /\ p >= 1
  /\ p + Len(lit) - 1 <= Len(s)
  /\ \A i \in 1..Len(lit) :
       (IF ignorecase THEN Fold(s[p + i - 1]) ELSE s[p + i - 1]) = lit[i]

\* n digits are at positions p .. p+n-1 of s
DigitsAt(s, p, n) ==
  /\ p >= 1
  /\ p + n - 1 <= Len(s)
  /\ \A i \in p..(p + n - 1) : IsDigit(s[i])

\* the position after the greedy run of whitespace that starts at p (\s*)
SkipSpaces(s, p) ==
  CHOOSE q \in p..(Len(s) + 1) :
    /\ \A r \in p..(q - 1) : IsSpace(s[r])
    /\ (q = Len(s) + 1 \/ ~IsSpace(s[q]))

IsDotOrSpace(c) == c = "." \/ IsSpace(c)

\* the position after the greedy run of periods and whitespace that starts at p ([\.\s]*)
SkipDotsOrSpaces(s, p) ==
  CHOOSE q \in p..(Len(s) + 1) :
    /\ \A r \in p..(q - 1) : IsDotOrSpace(s[r])
    /\ (q = Len(s) + 1 \/ ~IsDotOrSpace(s[q]))

\* the least element of a set of positions, 0 when there is none (no match)
FirstOf(S) == IF S = {} THEN 0 ELSE CHOOSE p \in S : \A q \in S : p <= q

\* DniMatchAt for the pattern DNI\s+(\d{8})
DniMatchAt_con_espacio(s, p) ==
  /\ LitAt(s, p, <<"D", "N", "I">>, TRUE)
  /\ SkipSpaces(s, p + 3) > p + 3
  /\ DigitsAt(s, SkipSpaces(s, p + 3), 8)

\* re.search(r'DNI\s*(\d{8})', s, re.IGNORECASE): start of the match, start of group 1
DniMatchAt(s, p) ==
  LitAt(s, p, <<"D", "N", "I">>, TRUE) /\ DigitsAt(s, SkipSpaces(s, p + 3), 8)

dni_match(s) == FirstOf({p \in 1..Len(s) : DniMatchAt(s, p)})

dni_group(s, p) == LET q == SkipSpaces(s, p + 3) IN SubSeq(s, q, q + 7)

\* mrz_dni taking the last match instead of the first
mrz_dni_ultimo(s) ==
  LET S == {p \in 1..Len(s) : LitAt(s, p, <<"P", "E", "R">>, FALSE) /\ DigitsAt(s, p + 3, 8)}
  IN IF S = {} THEN 0 ELSE CHOOSE p \in S : \A q \in S : q <= p

\* re.search(r'PER(\d{8})', s)
mrz_dni(s) ==
  FirstOf({p \in 1..Len(s) : LitAt(s, p, <<"P", "E", "R">>, FALSE) /\ DigitsAt(s, p + 3, 8)})

\* re.search(r'PRIMER\s*APELLIDO', linea, re.IGNORECASE)
EsPrimerApellido(linea) ==
  \E p \in 1..Len(linea) :
    /\ LitAt(linea, p, <<"P", "R", "I", "M", "E", "R">>, TRUE)
    /\ LitAt(linea, SkipSpaces(linea, p + 6),
             <<"A", "P", "E", "L", "L", "I", "D", "O">>, TRUE)

\* re.search(r'SEGUNDO[\.\s]*APELLIDO', linea, re.IGNORECASE)
EsSegundoApellido(linea) ==
  \E p \in 1..Len(linea) :
    /\ LitAt(linea, p, <<"S", "E", "G", "U", "N", "D", "O">>, TRUE)
    /\ LitAt(linea, SkipDotsOrSpaces(linea, p + 7),
             <<"A", "P", "E", "L", "L", "I", "D", "O">>, TRUE)

\* re.search(r'PRE\s*NOMBRES?', linea, re.IGNORECASE)
EsPreNombres(linea) ==
  \E p \in 1..Len(linea) :
    /\ LitAt(linea, p, <<"P", "R", "E">>, TRUE)
    /\ LitAt(linea, SkipSpaces(linea, p + 3), <<"N", "O", "M", "B", "R", "E">>, TRUE)

\* re.match(r'^[A-ZÁÉÍÓÚÑ\s]+$', candidato)
SoloMayusculas(candidato) ==
  /\ Len(candidato) >= 1
  /\ \A i \in 1..Len(candidato) : IsUpperOrSpace(candidato[i])

\* re.findall(r'\b(\d{8})\b', s): the start positions of the matches
FechaMatchAt(s, p) ==
  /\ DigitsAt(s, p, 8)
  /\ (p = 1 \/ ~IsWord(s[p - 1]))
  /\ (p + 8 > Len(s) \/ ~IsWord(s[p + 8]))

RECURSIVE SortedSeq(_)
SortedSeq(S) ==
  IF S = {} THEN <<>>
  ELSE LET m == FirstOf(S) IN <<m>> \o SortedSeq(S \ {m})

fechas_encontradas(s) ==
  LET ps == SortedSeq({p \in 1..Len(s) : FechaMatchAt(s, p)})
  IN [i \in 1..Len(ps) |-> SubSeq(s, ps[i], ps[i] + 7)]

\* re.search(r'\d{6}([MF])\d{7}', s)
mrz_sexo(s) ==
  FirstOf({p \in 1..Len(s) :
             /\ DigitsAt(s, p, 6)
             /\ p + 6 <= Len(s)
             /\ s[p + 6] \in {"M", "F"}
             /\ DigitsAt(s, p + 7, 7)})

----------------------------------------------------------------------------
(* str.split, str.strip, str.join *)

\* s.split('\n')
RECURSIVE Split(_)
Split(s) ==
  LET n == FirstOf({i \in 1..Len(s) : s[i] = NL})
  IN IF n = 0 THEN <<s>>
     ELSE <<SubSeq(s, 1, n - 1)>> \o Split(SubSeq(s, n + 1, Len(s)))

\* s.strip()
Strip(s) ==
  LET keep == {i \in 1..Len(s) : ~IsSpace(s[i])}
  IN IF keep = {} THEN <<>>
     ELSE SubSeq(s, FirstOf(keep), CHOOSE j \in keep : \A k \in keep : k <= j)

\* [l.strip() for l in texto_ocr.split('\n') if l.strip()]
RECURSIVE StripAll(_)
StripAll(ls) ==
  IF ls = <<>> THEN <<>>
  ELSE (IF Strip(Head(ls)) = <<>> THEN <<>> ELSE <<Strip(Head(ls))>>) \o StripAll(Tail(ls))

Lineas(s) == StripAll(Split(s))

\* '\n'.join(ls)
RECURSIVE Join(_)
Join(ls) ==
  IF ls = <<>> THEN <<>>
  ELSE IF Len(ls) = 1 THEN ls[1]
  ELSE ls[1] \o <<NL>> \o Join(Tail(ls))

----------------------------------------------------------------------------
(* parsear_dni *)

\* datos[k] = v
Put(d, k, v) == [x \in (DOMAIN d) \cup {k} |-> IF x = k THEN v ELSE d[x]]

\* lines 88-95: the document number
parse_dni(d, s) ==
  LET p == dni_match(s)
  IN IF p = 0 THEN d
     ELSE LET dni_raw == dni_group(s, p)
          IN IF StartsWith(dni_raw, <<"0", "0">>)
             THEN LET m == mrz_dni(s)
                  IN Put(d, "dni", IF m # 0 THEN SubSeq(s, m + 3, m + 10) ELSE dni_raw)
             ELSE Put(d, "dni", dni_raw)

\* lines 98-104: the paternal surname
parse_apellido_paterno(d, lineas) ==
  LET i == FirstOf({j \in 1..Len(lineas) : EsPrimerApellido(lineas[j])})
  IN IF i # 0 /\ i + 1 <= Len(lineas) /\ SoloMayusculas(lineas[i + 1])
     THEN Put(d, "apellido_paterno", lineas[i + 1])
     ELSE d

\* lines 106-115: the maternal surname
corregir_apellido(candidato) ==
  IF candidato = <<"M", "U", "N", "E", "Z">> THEN <<"N", "U", "N", "E", "Z">> ELSE candidato

parse_apellido_materno(d, lineas) ==
  LET i == FirstOf({j \in 1..Len(lineas) : EsSegundoApellido(lineas[j])})
  IN IF i # 0 /\ i + 1 <= Len(lineas) /\ SoloMayusculas(corregir_apellido(lineas[i + 1]))
     THEN Put(d, "apellido_materno", corregir_apellido(lineas[i + 1]))
     ELSE d

\* line 123
nombres_comunes ==
  << <<"M", "A", "R", "I", "A">>, <<"M", "O", "N", "I", "C", "A">>, <<"J", "U", "A", "N">>,
     <<"J", "O", "S", "E">>, <<"L", "U", "I", "S">>, <<"C", "A", "R", "L", "O", "S">>,
     <<"I", "S", "A", "B", "E", "L">> >>

\* lines 124-127: the first catalog name that is a proper prefix splits the candidate
separar_nombres(candidato) ==
  LET k == FirstOf({j \in 1..Len(nombres_comunes) :
                      /\ StartsWith(candidato, nombres_comunes[j])
                      /\ Len(candidato) > Len(nombres_comunes[j])})
  IN IF k = 0 THEN candidato
     ELSE nombres_comunes[k] \o <<" ">>
            \o SubSeq(candidato, Len(nombres_comunes[k]) + 1, Len(candidato))

\* lines 118-129: the given names
parse_nombres(d, lineas) ==
  LET i == FirstOf({j \in 1..Len(lineas) : EsPreNombres(lineas[j])})
  IN IF i # 0 /\ i + 1 <= Len(lineas)
     THEN Put(d, "nombres", separar_nombres(lineas[i + 1]))
     ELSE d

\* line 140: (hoy - fecha_nac).days // 365, for a corrected date dd/mm/yyyy
edad_de(fecha_corregida, now) ==
  LET dia == IntOf(SubSeq(fecha_corregida, 1, 2))
      mes == IntOf(SubSeq(fecha_corregida, 4, 5))
      anio == IntOf(SubSeq(fecha_corregida, 7, 10))
      days == Ordinal(now[1], now[2], now[3]) - Ordinal(anio, mes, dia)
  IN IF days >= 0 THEN days \div 365 ELSE -(((-days) + 364) \div 365)

\* line 142
edad_aceptada(edad) == 0 <= edad /\ edad <= 120

\* lines 132-148: the birth date, the first candidate that passes
RECURSIVE parse_fecha(_, _, _)
parse_fecha(d, fechas, now) ==
  IF fechas = <<>> THEN d
  ELSE LET fecha_corregida == corregir_fecha_ocr(Head(fechas))
       IN IF fecha_corregida # None /\ edad_aceptada(edad_de(fecha_corregida, now))
          THEN Put(Put(Put(d, "fecha_nacimiento", fecha_corregida),
                       "fecha_nacimiento_iso",
                       SubSeq(fecha_corregida, 7, 10) \o <<"-">>
                         \o SubSeq(fecha_corregida, 4, 5) \o <<"-">>
                         \o SubSeq(fecha_corregida, 1, 2)),
                   "edad", edad_de(fecha_corregida, now))
          ELSE parse_fecha(d, Tail(fechas), now)

\* lines 151-154: the sex, from the MRZ
parse_sexo(d, s) ==
  LET p == mrz_sexo(s)
  IN IF p = 0 THEN d
     ELSE Put(Put(d, "sexo", <<s[p + 6]>>),
              "sexo_completo",
              IF s[p + 6] = "M"
              THEN <<"M", "A", "S", "C", "U", "L", "I", "N", "O">>
              ELSE <<"F", "E", "M", "E", "N", "I", "N", "O">>)

\* parse_nombre_completo falling back to the surnames when nombres is absent
parse_nombre_completo_apellidos(d) ==
  IF {"nombres", "apellido_paterno", "apellido_materno"} \subseteq DOMAIN d
  THEN Put(d, "nombre_completo",
           d["nombres"] \o <<" ">> \o d["apellido_paterno"] \o <<" ">> \o d["apellido_materno"])
  ELSE IF {"nombres", "apellido_paterno"} \subseteq DOMAIN d
  THEN Put(d, "nombre_completo", d["nombres"] \o <<" ">> \o d["apellido_paterno"])
  ELSE IF {"apellido_paterno", "apellido_materno"} \subseteq DOMAIN d
  THEN Put(d, "nombre_completo", d["apellido_paterno"] \o <<" ">> \o d["apellido_materno"])
  ELSE d

\* lines 157-160: the full name
parse_nombre_completo(d) ==
  IF {"nombres", "apellido_paterno", "apellido_materno"} \subseteq DOMAIN d
  THEN Put(d, "nombre_completo",
           d["nombres"] \o <<" ">> \o d["apellido_paterno"] \o <<" ">> \o d["apellido_materno"])
  ELSE IF {"nombres", "apellido_paterno"} \subseteq DOMAIN d
  THEN Put(d, "nombre_completo", d["nombres"] \o <<" ">> \o d["apellido_paterno"])
  ELSE d

parsear_dni(s, now) ==
  LET lineas == Lineas(s)
      d1 == parse_dni(<<>>, s)
      d2 == parse_apellido_paterno(d1, lineas)
      d3 == parse_apellido_materno(d2, lineas)
      d4 == parse_nombres(d3, lineas)
      d5 == parse_fecha(d4, fechas_encontradas(s), now)
      d6 == parse_sexo(d5, s)
  IN parse_nombre_completo(d6)

----------------------------------------------------------------------------
(* Inputs *)

\* the number of text fragments a parsed text is joined from
MaxFrags == 3

\* the number of text blocks the OCR engine returns
MaxBloques == 2

\* the longest argument of corregir_fecha_ocr whose length is not 8
MaxFechaLen == 10

Unset == <<"unset">>

\* resultado before ocr_engine.ocr has returned
SinResultado == [tipo |-> "unset", bloques |-> <<>>]

RECURSIVE SeqsUpTo(_, _)
SeqsUpTo(S, n) ==
  IF n = 0 THEN {<<>>}
  ELSE LET shorter == SeqsUpTo(S, n - 1)
       IN shorter \cup {Append(q, x) : q \in {r \in shorter : Len(r) = n - 1}, x \in S}

\* the texts joined with "\n" from at most MaxFrags fragments of a catalog
Textos(catalogo) == {Join(q) : q \in SeqsUpTo(Range(catalogo), MaxFrags)}

\* texts around the document number and the MRZ:
\*   "DNI 12345678", "DNI12345678", "dni\n87654321", "DNI 123456789", "DNI 00345678",
\*   "PER87654321", "PER11112222", "DNI 1234567", "per55556666", "9201015M3001011"
DniFrags ==
  << <<"D", "N", "I", " ", "1", "2", "3", "4", "5", "6", "7", "8">>,
     <<"D", "N", "I", "1", "2", "3", "4", "5", "6", "7", "8">>,
     <<"d", "n", "i", "\n", "8", "7", "6", "5", "4", "3", "2", "1">>,
     <<"D", "N", "I", " ", "1", "2", "3", "4", "5", "6", "7", "8", "9">>,
     <<"D", "N", "I", " ", "0", "0", "3", "4", "5", "6", "7", "8">>,
     <<"P", "E", "R", "8", "7", "6", "5", "4", "3", "2", "1">>,
     <<"P", "E", "R", "1", "1", "1", "1", "2", "2", "2", "2">>,
     <<"D", "N", "I", " ", "1", "2", "3", "4", "5", "6", "7">>,
     <<"p", "e", "r", "5", "5", "5", "5", "6", "6", "6", "6">>,
     <<"9", "2", "0", "1", "0", "1", "5", "M", "3", "0", "0", "1", "0", "1", "1">> >>

\* anchor lines and candidate lines of the surnames and names:
\*   "PRIMER APELLIDO\nQUISPE", "PrimerApellido\nquispe7", "SEGUNDO.APELLIDO\nMUNEZ",
\*   "SEGUNDO APELLIDO\nÑAUPA", "PRE NOMBRES\nMARIAISABEL", "PRENOMBRE\nMARIA ISABEL",
\*   "Pre Nombres\njuan1", "JUANA", "PRE NOMBRES"
NombresFrags ==
  << <<"P", "R", "I", "M", "E", "R", " ", "A", "P", "E", "L", "L", "I", "D", "O", "\n", "Q", "U", "I", "S", "P", "E">>,
     <<"P", "r", "i", "m", "e", "r", "A", "p", "e", "l", "l", "i", "d", "o", "\n", "q", "u", "i", "s", "p", "e", "7">>,
     <<"S", "E", "G", "U", "N", "D", "O", ".", "A", "P", "E", "L", "L", "I", "D", "O", "\n", "M", "U", "N", "E", "Z">>,
     <<"S", "E", "G", "U", "N", "D", "O", " ", "A", "P", "E", "L", "L", "I", "D", "O", "\n", "Ñ", "A", "U", "P", "A">>,
     <<"P", "R", "E", " ", "N", "O", "M", "B", "R", "E", "S", "\n", "M", "A", "R", "I", "A", "I", "S", "A", "B", "E", "L">>,
     <<"P", "R", "E", "N", "O", "M", "B", "R", "E", "\n", "M", "A", "R", "I", "A", " ", "I", "S", "A", "B", "E", "L">>,
     <<"P", "r", "e", " ", "N", "o", "m", "b", "r", "e", "s", "\n", "j", "u", "a", "n", "1">>,
     <<"J", "U", "A", "N", "A">>,
     <<"P", "R", "E", " ", "N", "O", "M", "B", "R", "E", "S">> >>

\* digit runs that are or are not birth-date candidates:
\*   "15192005", "35112002", "99999999", "01011900", "X01012000", "01012000",
\*   "20122030", "10121904", "123456789", "29022001-14071999"
NacFrags ==
  << <<"1", "5", "1", "9", "2", "0", "0", "5">>,
     <<"3", "5", "1", "1", "2", "0", "0", "2">>,
     <<"9", "9", "9", "9", "9", "9", "9", "9">>,
     <<"0", "1", "0", "1", "1", "9", "0", "0">>,
     <<"X", "0", "1", "0", "1", "2", "0", "0", "0">>,
     <<"0", "1", "0", "1", "2", "0", "0", "0">>,
     <<"2", "0", "1", "2", "2", "0", "3", "0">>,
     <<"1", "0", "1", "2", "1", "9", "0", "4">>,
     <<"1", "2", "3", "4", "5", "6", "7", "8", "9">>,
     <<"2", "9", "0", "2", "2", "0", "0", "1", "-", "1", "4", "0", "7", "1", "9", "9", "9">> >>

\* texts of the blocks the OCR engine recognises:
\*   "DNI 12345678", "DNI 00345678", "PRE NOMBRES", "MARIAISABEL", "15192005",
\*   "IDPER87654321<<<"
BloqueTextos ==
  << <<"D", "N", "I", " ", "1", "2", "3", "4", "5", "6", "7", "8">>,
     <<"D", "N", "I", " ", "0", "0", "3", "4", "5", "6", "7", "8">>,
     <<"P", "R", "E", " ", "N", "O", "M", "B", "R", "E", "S">>,
     <<"M", "A", "R", "I", "A", "I", "S", "A", "B", "E", "L">>,
     <<"1", "5", "1", "9", "2", "0", "0", "5">>,
     <<"I", "D", "P", "E", "R", "8", "7", "6", "5", "4", "3", "2", "1", "<", "<", "<">> >>

\* dates datetime.now() returns
HoyFijo == <<2025, 11, 14>>

HoySet == {<<2025, 11, 14>>, <<2024, 12, 27>>}

TwoDigits(n) == <<DigitChars[(n \div 10) + 1], DigitChars[(n % 10) + 1]>>

FourDigits(n) == TwoDigits(n \div 100) \o TwoDigits(n % 100)

MesesProbados == (0..20) \cup {99}

AniosProbados == {0, 1, 1900, 2000, 2001, 2002, 2004, 2005, 2019, 2062, 2100, 2919, 9999}

\* the arguments of corregir_fecha_ocr: None, digit strings of length 8, and digit
\* strings of every other length up to MaxFechaLen
FechaInputs ==
  {None}
    \cup {TwoDigits(d) \o TwoDigits(m) \o FourDigits(y) :
            d \in 0..99, m \in MesesProbados, y \in AniosProbados}
    \cup {[i \in 1..n |-> DigitChars[((3 * i) % 10) + 1]] : n \in (0..MaxFechaLen) \ {8}}

----------------------------------------------------------------------------
(* Calls of corregir_fecha_ocr *)

InitFecha ==
  /\ pc = "fecha"
  /\ fecha_str \in FechaInputs
  /\ fecha_out = Unset
  /\ ocr_engine = "ready"
  /\ img = "unset"
  /\ resultado = SinResultado
  /\ texto_ocr = Unset
  /\ hoy = HoyFijo
  /\ datos = <<>>
  /\ retorno = <<>>
  /\ llamadas = <<>>

CorregirFecha ==
  /\ pc = "fecha"
  /\ fecha_out' = corregir_fecha_ocr(fecha_str)
  /\ pc' = "fecha_done"
  /\ UNCHANGED <<ocr_engine, img, resultado, texto_ocr, hoy, datos, retorno, llamadas, fecha_str>>

SpecFecha == InitFecha /\ [][CorregirFecha]_vars

----------------------------------------------------------------------------
(* Calls of parsear_dni *)

InitParse(textos, hoys) ==
  /\ pc = "parse"
  /\ texto_ocr \in textos
  /\ hoy \in hoys
  /\ datos = <<>>
  /\ fecha_str = Unset
  /\ fecha_out = Unset
  /\ ocr_engine = "ready"
  /\ img = "unset"
  /\ resultado = SinResultado
  /\ retorno = <<>>
  /\ llamadas = <<>>

ParsearDni ==
  /\ pc = "parse"
  /\ datos' = parsear_dni(texto_ocr, hoy)
  /\ pc' = "parse_done"
  /\ UNCHANGED <<ocr_engine, img, resultado, texto_ocr, hoy, retorno, llamadas, fecha_str, fecha_out>>

InitDni == InitParse(Textos(DniFrags), {HoyFijo})

InitNombres == InitParse(Textos(NombresFrags), {HoyFijo})

InitNac == InitParse(Textos(NacFrags), HoySet)

SpecDni == InitDni /\ [][ParsearDni]_vars

SpecNombres == InitNombres /\ [][ParsearDni]_vars

SpecNac == InitNac /\ [][ParsearDni]_vars

----------------------------------------------------------------------------
(* extraer_datos_dni *)

\* {"error": mensaje}; a message is kept whole, as a string of one element
Error(mensaje) == [k \in {"error"} |-> <<mensaje>>]

ErrorOcr == Error("OCR no inicializado correctamente")

ErrorImagen == Error("No se pudo cargar la imagen")

ErrorTexto == Error("No se pudo extraer texto de la imagen")

ErrorDni == Error("No se pudo detectar el DNI en la imagen")

\* the handler of lines 206-207
ErrorProcesando == Error("Error procesando DNI: ...")

\* what ocr_engine.ocr returns: None, [], [None], [[]], or [bloques]
OcrResultados ==
  {[tipo |-> t, bloques |-> <<>>] : t \in {"None", "[]", "[None]", "[[]]"}}
    \cup {[tipo |-> "bloques", bloques |-> q] :
            q \in SeqsUpTo(Range(BloqueTextos), MaxBloques) \ {<<>>}}

\* line 192: not resultado or not resultado[0]
SinTexto(r) == r.tipo # "bloques" \/ r.bloques = <<>>

\* line 201: not datos.get("dni")
SinDni(d) == "dni" \notin DOMAIN d \/ d["dni"] = <<>>

\* the module is imported: lines 17-26 leave a handle or None
Init ==
  /\ pc = "start"
  /\ ocr_engine \in {"ready", "None"}
  /\ img = "unset"
  /\ resultado = SinResultado
  /\ texto_ocr = Unset
  /\ hoy = HoyFijo
  /\ datos = <<>>
  /\ retorno = <<>>
  /\ llamadas = <<>>
  /\ fecha_str = Unset
  /\ fecha_out = Unset

\* the except clause of lines 206-207
Excepcion ==
  /\ retorno' = ErrorProcesando
  /\ pc' = "done"

\* VerificarOcr without the return of line 178
VerificarOcr_sin_retorno ==
  /\ pc = "start"
  /\ pc' = "engine_ok"
  /\ UNCHANGED <<ocr_engine, img, resultado, texto_ocr, hoy, datos, retorno, llamadas,
                 fecha_str, fecha_out>>

\* lines 177-178
VerificarOcr ==
  /\ pc = "start"
  /\ IF ocr_engine = "None"
     THEN retorno' = ErrorOcr /\ pc' = "done"
     ELSE retorno' = retorno /\ pc' = "engine_ok"
  /\ UNCHANGED <<ocr_engine, img, resultado, texto_ocr, hoy, datos, llamadas, fecha_str, fecha_out>>

\* lines 182-184: cv2.imread returns an image or None, or raises
CargarImagen ==
  /\ pc = "engine_ok"
  /\ llamadas' = Append(llamadas, "imread")
  /\ \/ /\ img' = "imagen"
        /\ pc' = "image_loaded"
        /\ retorno' = retorno
     \/ /\ img' = "None"
        /\ retorno' = ErrorImagen
        /\ pc' = "done"
     \/ /\ img' = img
        /\ Excepcion
  /\ UNCHANGED <<ocr_engine, resultado, texto_ocr, hoy, datos, fecha_str, fecha_out>>

\* line 187: mejorar_imagen_avanzada returns, or raises
MejorarImagen ==
  /\ pc = "image_loaded"
  /\ llamadas' = Append(llamadas, "mejorar_imagen_avanzada")
  /\ \/ /\ img' = "mejorada"
        /\ pc' = "image_enhanced"
        /\ retorno' = retorno
     \/ /\ img' = img
        /\ Excepcion
  /\ UNCHANGED <<ocr_engine, resultado, texto_ocr, hoy, datos, fecha_str, fecha_out>>

\* lines 190-193: ocr_engine.ocr returns, or raises
Ocr ==
  /\ pc = "image_enhanced"
  /\ llamadas' = Append(llamadas, "ocr")
  /\ \/ \E r \in OcrResultados :
          /\ resultado' = r
          /\ IF SinTexto(r)
             THEN retorno' = ErrorTexto /\ pc' = "done"
             ELSE retorno' = retorno /\ pc' = "ocr_invoked"
     \/ /\ resultado' = resultado
        /\ Excepcion
  /\ UNCHANGED <<ocr_engine, img, texto_ocr, hoy, datos, fecha_str, fecha_out>>

\* line 196: the join of the block texts, or an exception on a malformed block
ExtraerTexto ==
  /\ pc = "ocr_invoked"
  /\ llamadas' = Append(llamadas, "join")
  /\ \/ /\ texto_ocr' = Join(resultado.bloques)
        /\ pc' = "text_assembled"
        /\ retorno' = retorno
     \/ /\ texto_ocr' = texto_ocr
        /\ Excepcion
  /\ UNCHANGED <<ocr_engine, img, resultado, hoy, datos, fecha_str, fecha_out>>

\* line 199
Parsear ==
  /\ pc = "text_assembled"
  /\ llamadas' = Append(llamadas, "parsear_dni")
  /\ datos' = parsear_dni(texto_ocr, hoy)
  /\ pc' = "fields_parsed"
  /\ UNCHANGED <<ocr_engine, img, resultado, texto_ocr, hoy, retorno, fecha_str, fecha_out>>

\* resultado_final without the test of line 201
resultado_final_sin_verificar(d) == d

\* the value returned by lines 201-204
resultado_final(d) == IF SinDni(d) THEN ErrorDni ELSE d

\* lines 201-204
Retornar ==
  /\ pc = "fields_parsed"
  /\ retorno' = resultado_final(datos)
  /\ pc' = "done"
  /\ UNCHANGED <<ocr_engine, img, resultado, texto_ocr, hoy, datos, llamadas, fecha_str, fecha_out>>

Next ==
  \/ VerificarOcr
  \/ CargarImagen
  \/ MejorarImagen
  \/ Ocr
  \/ ExtraerTexto
  \/ Parsear
  \/ Retornar

Spec == Init /\ [][Next]_vars

----------------------------------------------------------------------------
(* Properties of extraer_datos_dni *)

EtapasEnOrden == <<"imread", "mejorar_imagen_avanzada", "ocr", "join", "parsear_dni">>

IsPrefix(a, b) == Len(a) <= Len(b) /\ SubSeq(b, 1, Len(a)) = a

EsError(r) == DOMAIN r = {"error"}

\* C1: the stages of extraer_datos_dni run in the order engine check, image load,
\* enhancement, OCR, text assembly, parsing; a stage that fails ends the call with
\* an error result and no later stage is attempted: with no engine handle nothing
\* is called, with no image neither the enhancement nor the OCR is called, and with
\* an empty OCR result parsear_dni is not called.
C1_EtapasEnOrden ==
  /\ IsPrefix(llamadas, EtapasEnOrden)
  /\ pc \in {"start", "engine_ok"} => llamadas = <<>>
  /\ pc = "image_loaded" => Len(llamadas) = 1
  /\ pc = "image_enhanced" => Len(llamadas) = 2
  /\ pc = "ocr_invoked" => Len(llamadas) = 3
  /\ pc = "text_assembled" => Len(llamadas) = 4
  /\ pc = "fields_parsed" => Len(llamadas) = 5
  /\ ocr_engine = "None" => llamadas = <<>>
  /\ img = "None" => llamadas = <<"imread">>
  /\ (resultado.tipo # "unset" /\ SinTexto(resultado)) => llamadas = SubSeq(EtapasEnOrden, 1, 3)
  /\ (pc = "done" /\ Len(llamadas) < 5) => EsError(retorno)
  /\ pc # "done" => retorno = <<>>

C1_Witness ==
  /\ pc = "done"
  /\ resultado.tipo = "[[]]"
  /\ retorno = ErrorTexto
  /\ llamadas = <<"imread", "mejorar_imagen_avanzada", "ocr">>

\* C2: a call of extraer_datos_dni never raises (it is always at a stage of the
\* pipeline or has returned, never left by an exception) and returns either an error result
\* whose only key is "error" or a record with a document number and no "error" key;
\* when parsing yields no document number the result is the error "No se pudo
\* detectar el DNI en la imagen", whatever other fields were extracted.
C2_ResultadoUniforme ==
  /\ pc \in {"start", "engine_ok", "image_loaded", "image_enhanced", "ocr_invoked",
             "text_assembled", "fields_parsed", "done"}
  /\ pc = "done" =>
       /\ \/ EsError(retorno)
          \/ /\ "dni" \in DOMAIN retorno
             /\ retorno["dni"] # <<>>
             /\ "error" \notin DOMAIN retorno
       /\ ("parsear_dni" \in Range(llamadas) /\ "dni" \notin DOMAIN datos) => retorno = ErrorDni

C2_Witness ==
  /\ pc = "done"
  /\ retorno = ErrorDni
  /\ "nombres" \in DOMAIN datos
  /\ "dni" \notin DOMAIN datos

----------------------------------------------------------------------------
(* Properties of corregir_fecha_ocr *)

\* a day of the Gregorian calendar
FechaReal(y, m, d) ==
  /\ y >= 1
  /\ m \in 1..12
  /\ d >= 1
  /\ d <= <<31, IF (y % 400 = 0) \/ (y % 4 = 0 /\ y % 100 # 0) THEN 29 ELSE 28,
            31, 30, 31, 30, 31, 31, 30, 31, 30, 31>>[m]

\* the result C3 states for a string of 8 digits
FechaEsperada(s) ==
  LET d0 == IntOf(SubSeq(s, 1, 2))
      m0 == IntOf(SubSeq(s, 3, 4))
      y0 == IntOf(SubSeq(s, 5, 8))
      d1 == IF d0 \in 32..39 THEN d0 - 30 ELSE d0
      m1 == IF m0 = 19 THEN 10 ELSE m0
      y1 == IF y0 = 2062 THEN 2002 ELSE IF y0 = 2919 THEN 2019 ELSE y0
  IN IF FechaReal(y1, m1, d1)
     THEN TwoDigits(d1) \o <<"/">> \o TwoDigits(m1) \o <<"/">> \o FourDigits(y1)
     ELSE None

\* C3: for a string of 8 digits corregir_fecha_ocr corrects the day 32..39 to 02..09,
\* the month 19 to 10 and the years 2062 and 2919 to 2002 and 2019, and returns the
\* corrected date as dd/mm/yyyy exactly when it is a day of the Gregorian calendar and
\* None otherwise; an argument whose length is not 8 gives None.
C3_FechaCorregida ==
  pc = "fecha_done" =>
    /\ (fecha_str = None \/ Len(fecha_str) # 8) => fecha_out = None
    /\ (fecha_str # None /\ Len(fecha_str) = 8) => fecha_out = FechaEsperada(fecha_str)
    /\ fecha_str = <<"3", "5", "1", "1", "2", "0", "0", "2">> => fecha_out = <<"0", "5", "/", "1", "1", "/", "2", "0", "0", "2">>
    /\ fecha_str = <<"1", "5", "1", "9", "2", "0", "0", "5">> => fecha_out = <<"1", "5", "/", "1", "0", "/", "2", "0", "0", "5">>
    /\ fecha_str = <<"0", "1", "0", "1", "2", "0", "6", "2">> => fecha_out = <<"0", "1", "/", "0", "1", "/", "2", "0", "0", "2">>
    /\ fecha_str = <<"0", "1", "0", "1", "2", "9", "1", "9">> => fecha_out = <<"0", "1", "/", "0", "1", "/", "2", "0", "1", "9">>
    /\ fecha_str = <<"9", "9", "9", "9", "9", "9", "9", "9">> => fecha_out = None

C3_Witness ==
  /\ pc = "fecha_done"
  /\ fecha_str = <<"3", "5", "1", "1", "2", "0", "0", "2">>
  /\ fecha_out = <<"0", "5", "/", "1", "1", "/", "2", "0", "0", "2">>

----------------------------------------------------------------------------
(* Properties of the birth date and the age *)

\* the starts of the maximal runs of exactly 8 digits of s
CorridasDeOcho(s) ==
  {p \in 1..Len(s) :
     /\ DigitsAt(s, p, 8)
     /\ (p = 1 \/ ~IsDigit(s[p - 1]))
     /\ (p + 8 > Len(s) \/ ~IsDigit(s[p + 8]))}

\* the birthdays completed at the date now by someone born on dd/mm/yyyy
AniosCumplidos(fecha, now) ==
  LET d == IntOf(SubSeq(fecha, 1, 2))
      m == IntOf(SubSeq(fecha, 4, 5))
      y == IntOf(SubSeq(fecha, 7, 10))
  IN now[1] - y - (IF now[2] < m \/ (now[2] = m /\ now[3] < d) THEN 1 ELSE 0)

FechaPlausible(raw, now) ==
  /\ corregir_fecha_ocr(raw) # None
  /\ AniosCumplidos(corregir_fecha_ocr(raw), now) \in 0..120

\* C4: the birth-date candidates are the maximal runs of exactly 8 digits of the text,
\* in order of appearance; fecha_nacimiento is the corrected date of the first candidate
\* whose corrected date is a calendar date and whose age in full years is in 0..120,
\* and when no candidate qualifies fecha_nacimiento, fecha_nacimiento_iso and edad are
\* all absent.
C4_PrimeraFechaPlausible ==
  pc = "parse_done" =>
    LET buenas == {p \in CorridasDeOcho(texto_ocr) :
                     FechaPlausible(SubSeq(texto_ocr, p, p + 7), hoy)}
        p1 == FirstOf(buenas)
    IN IF buenas = {}
       THEN {"fecha_nacimiento", "fecha_nacimiento_iso", "edad"} \cap DOMAIN datos = {}
       ELSE /\ "fecha_nacimiento" \in DOMAIN datos
            /\ datos["fecha_nacimiento"] = corregir_fecha_ocr(SubSeq(texto_ocr, p1, p1 + 7))

\* C5: an age that parsear_dni emits is the number of full years (birthdays completed)
\* between the accepted birth date and the current date.
C5_EdadEnAniosCumplidos ==
  (pc = "parse_done" /\ "edad" \in DOMAIN datos) =>
    datos["edad"] = AniosCumplidos(datos["fecha_nacimiento"], hoy)

----------------------------------------------------------------------------
(* Properties of the document number *)

\* s has "DNI" in any case at p, then the whitespace p+3 .. q-1, then 8 digits at q
DniSeguidoDeDigitos(s, p, q) ==
  /\ LitAt(s, p, <<"D", "N", "I">>, TRUE)
  /\ \A r \in (p + 3)..(q - 1) : IsSpace(s[r])
  /\ DigitsAt(s, q, 8)

\* C6, as stated: the document number is set only when the text has "DNI" in any
\* case, then whitespace, then a run of exactly 8 digits.
C6_Original ==
  (pc = "parse_done" /\ "dni" \in DOMAIN datos) =>
    \E p \in 1..Len(texto_ocr), q \in 1..Len(texto_ocr) :
      /\ q > p + 3
      /\ DniSeguidoDeDigitos(texto_ocr, p, q)
      /\ (q + 8 > Len(texto_ocr) \/ ~IsDigit(texto_ocr[q + 8]))

\* C6, amended: the document number is set exactly when the text has "DNI" in any
\* case, then zero or more whitespace characters, then at least 8 digits; it is then
\* a string of 8 digits, and otherwise the key is absent.
C6_DniPresente ==
  pc = "parse_done" =>
    /\ "dni" \in DOMAIN datos <=>
         \E p \in 1..Len(texto_ocr), q \in 1..Len(texto_ocr) :
           q >= p + 3 /\ DniSeguidoDeDigitos(texto_ocr, p, q)
    /\ "dni" \in DOMAIN datos =>
         Len(datos["dni"]) = 8 /\ \A i \in 1..8 : IsDigit(datos["dni"][i])

C6_Witness ==
  /\ pc = "parse_done"
  /\ texto_ocr = <<"D", "N", "I", " ", "1", "2", "3", "4", "5", "6", "7", "8", "9">>
  /\ "dni" \in DOMAIN datos
  /\ datos["dni"] = <<"1", "2", "3", "4", "5", "6", "7", "8">>

\* the starts of "PER" followed by 8 digits
PerSeguidoDeDigitos(s) ==
  {p \in 1..Len(s) :
     /\ p + 10 <= Len(s)
     /\ SubSeq(s, p, p + 2) = <<"P", "E", "R">>
     /\ \A i \in (p + 3)..(p + 10) : IsDigit(s[i])}

----------------------------------------------------------------------------
(* Properties of the surnames and names *)

LetraMayusculaOEspacio(c) ==
  c \in Range(UpperChars) \cup {"Á", "É", "Í", "Ó", "Ú", "Ñ", " "}

\* C8: each of apellido_paterno, apellido_materno and nombres, when present, is made
\* of upper-case letters (A-Z, the accented vowels, Ñ) and spaces only.
C8_SoloMayusculas ==
  pc = "parse_done" =>
    \A k \in {"apellido_paterno", "apellido_materno", "nombres"} \cap DOMAIN datos :
      \A i \in 1..Len(datos[k]) : LetraMayusculaOEspacio(datos[k][i])

\* C9: nombre_completo is present if and only if nombres and apellido_paterno are both
\* present; it is "nombres paterno materno" when apellido_materno is present too and
\* "nombres paterno" otherwise; it is never built from the surnames alone.
C9_NombreCompleto ==
  pc = "parse_done" =>
    /\ "nombre_completo" \in DOMAIN datos <=>
         ("nombres" \in DOMAIN datos /\ "apellido_paterno" \in DOMAIN datos)
    /\ ("nombre_completo" \in DOMAIN datos /\ "apellido_materno" \in DOMAIN datos) =>
         datos["nombre_completo"] =
           datos["nombres"] \o <<" ">> \o datos["apellido_paterno"]
             \o <<" ">> \o datos["apellido_materno"]
    /\ ("nombre_completo" \in DOMAIN datos /\ "apellido_materno" \notin DOMAIN datos) =>
         datos["nombre_completo"] = datos["nombres"] \o <<" ">> \o datos["apellido_paterno"]

C9_Witness ==
  /\ pc = "parse_done"
  /\ texto_ocr = <<"P", "R", "I", "M", "E", "R", " ", "A", "P", "E", "L", "L", "I", "D", "O", "\n", "Q", "U", "I", "S", "P", "E", "\n", "S", "E", "G", "U", "N", "D", "O", ".", "A", "P", "E", "L", "L", "I", "D", "O", "\n", "M", "U", "N", "E", "Z", "\n", "P", "R", "E", " ", "N", "O", "M", "B", "R", "E", "S", "\n", "M", "A", "R", "I", "A", "I", "S", "A", "B", "E", "L">>
  /\ "nombre_completo" \in DOMAIN datos
  /\ datos["nombre_completo"] = <<"M", "A", "R", "I", "A", " ", "I", "S", "A", "B", "E", "L", " ", "Q", "U", "I", "S", "P", "E", " ", "N", "U", "N", "E", "Z">>

\* the line after the first PRE NOMBRES anchor, None when there is none
CandidatoNombres(s) ==
  LET lineas == Lineas(s)
      i == FirstOf({j \in 1..Len(lineas) : EsPreNombres(lineas[j])})
  IN IF i # 0 /\ i + 1 <= Len(lineas) THEN lineas[i + 1] ELSE None

\* the candidate starts with a catalog name followed by a space
EspacioTrasNombre(c) ==
  \E j \in 1..Len(nombres_comunes) : StartsWith(c, nombres_comunes[j] \o <<" ">>)

\* C10: the splitting rule only inserts a missing space: a candidate that has a space
\* right after its leading catalog name is emitted unchanged, and the rule applied to
\* its own output gives that output.
C10_SepararSoloSiFalta ==
  (pc = "parse_done" /\ "nombres" \in DOMAIN datos) =>
    /\ EspacioTrasNombre(CandidatoNombres(texto_ocr)) =>
         datos["nombres"] = CandidatoNombres(texto_ocr)
    /\ separar_nombres(datos["nombres"]) = datos["nombres"]

====
